---- MODULE Spec2Model ----
(***************************************************************************)
(* Model of the Pincoin landing page script.                               *)
(*                                                                         *)
(*  - initWalletScroll (src/unnamed/part_000): the scroll sequencer that   *)
(*    builds one pinned, scroll-driven timeline per wallet panel.          *)
(*  - main.js (last draft, src/src/js/main.js lines 341-851): theme        *)
(*    switcher, modal popups with the waitlist form, swipe/meet/logo       *)
(*    scroll animations, initApp and the resize wiring.                    *)
(*                                                                         *)
(* JavaScript numbers are IEEE 754 binary64 values: every operation gives   *)
(* the exact result rounded to the nearest representable number (ties to   *)
(* even), with Infinity, NaN and signed zero. Number::toString gives the   *)
(* shortest decimal that reads back as the number. A string the code takes *)
(* apart (the email value) is the sequence of its characters.              *)
(***************************************************************************)
EXTENDS Integers, Sequences, FiniteSets, TLC

\* ------------------------------------------------------------------ bounds
MaxPanels == 3
MaxHeight == 2
MaxBuilds == 2
MaxRelayouts == 1
MaxResizes == 2
MaxSubmits == 2
MaxEmailLen == 4
MaxMissing == 2
MaxMeasure == 6
MaxMeetTexts == 4

\* ------------------------------------------------- JavaScript number model
\* Natural numbers of any size: little-endian sequences of 15-bit limbs, without
\* high zero limbs (<< >> is 0).
Limb == 2 ^ 15

Max(a, b) == IF a > b THEN a ELSE b

Min(a, b) == IF a < b THEN a ELSE b

Abs(x) == IF x < 0 THEN -x ELSE x

RECURSIVE BNat(_)
BNat(n) == IF n = 0 THEN << >> ELSE << n % Limb >> \o BNat(n \div Limb)

\* x without its high zero limbs
BTrim(x) ==
    LET nz == {i \in 1 .. Len(x) : x[i] # 0}
    IN  IF nz = {} THEN << >>
        ELSE SubSeq(x, 1, CHOOSE i \in nz : \A j \in nz : j <= i)

LimbAt(x, i) == IF i <= Len(x) THEN x[i] ELSE 0

\* -1, 0 or 1 as x < y, x = y or x > y
BCmp(x, y) ==
    IF Len(x) < Len(y) THEN -1
    ELSE IF Len(x) > Len(y) THEN 1
    ELSE LET ne == {i \in 1 .. Len(x) : x[i] # y[i]}
             top == CHOOSE i \in ne : \A j \in ne : j <= i
         IN  IF ne = {} THEN 0 ELSE IF x[top] < y[top] THEN -1 ELSE 1

\* The limbs lo .. hi of x + y + carry and the carry out of them: [d, c]. The
\* range is halved rather than walked, which keeps the nesting shallow.
RECURSIVE BAddRange(_, _, _, _, _)
BAddRange(x, y, lo, hi, carry) ==
    IF lo = hi
    THEN LET s == LimbAt(x, lo) + LimbAt(y, lo) + carry
         IN  [d |-> << s % Limb >>, c |-> s \div Limb]
    ELSE LET mid == (lo + hi) \div 2
             l == BAddRange(x, y, lo, mid, carry)
             h == BAddRange(x, y, mid + 1, hi, l.c)
         IN  [d |-> l.d \o h.d, c |-> h.c]

BAdd(x, y) ==
    IF x = << >> THEN y
    ELSE LET r == BAddRange(x, y, 1, Max(Len(x), Len(y)), 0)
         IN  IF r.c = 0 THEN r.d ELSE Append(r.d, r.c)

\* the limbs lo .. hi of x - y - borrow and the borrow out of them: [d, c]
RECURSIVE BSubRange(_, _, _, _, _)
BSubRange(x, y, lo, hi, borrow) ==
    IF lo = hi
    THEN LET d == x[lo] - LimbAt(y, lo) - borrow
         IN  IF d < 0 THEN [d |-> << d + Limb >>, c |-> 1] ELSE [d |-> << d >>, c |-> 0]
    ELSE LET mid == (lo + hi) \div 2
             l == BSubRange(x, y, lo, mid, borrow)
             h == BSubRange(x, y, mid + 1, hi, l.c)
         IN  [d |-> l.d \o h.d, c |-> h.c]

\* x - y for x >= y
BSub(x, y) == IF x = << >> THEN x ELSE BTrim(BSubRange(x, y, 1, Len(x), 0).d)

\* the limbs lo .. hi of x * k + carry and the carry out of them: [d, c]
RECURSIVE BMulSmallRange(_, _, _, _, _)
BMulSmallRange(x, k, lo, hi, carry) ==
    IF lo = hi
    THEN LET p == x[lo] * k + carry
         IN  [d |-> << p % Limb >>, c |-> p \div Limb]
    ELSE LET mid == (lo + hi) \div 2
             l == BMulSmallRange(x, k, lo, mid, carry)
             h == BMulSmallRange(x, k, mid + 1, hi, l.c)
         IN  [d |-> l.d \o h.d, c |-> h.c]

\* x * k for 0 <= k < Limb
BMulSmall(x, k) ==
    IF k = 0 \/ x = << >> THEN << >>
    ELSE LET r == BMulSmallRange(x, k, 1, Len(x), 0)
         IN  IF r.c = 0 THEN r.d ELSE Append(r.d, r.c)

\* x * Limb^n
BShiftLimbs(x, n) == IF x = << >> THEN x ELSE [i \in 1 .. n |-> 0] \o x

\* x times the number made of the limbs lo .. hi of y
RECURSIVE BMulRange(_, _, _, _)
BMulRange(x, y, lo, hi) ==
    IF lo = hi THEN BMulSmall(x, y[lo])
    ELSE LET mid == (lo + hi) \div 2
         IN  BAdd(BMulRange(x, y, lo, mid),
                  BShiftLimbs(BMulRange(x, y, mid + 1, hi), mid + 1 - lo))

BMul(x, y) ==
    IF x = << >> \/ y = << >> THEN << >>
    ELSE IF Len(x) < Len(y) THEN BMulRange(y, x, 1, Len(x))
    ELSE BMulRange(x, y, 1, Len(y))

\* x * 2^n
BShl(x, n) ==
    IF x = << >> THEN x
    ELSE BShiftLimbs(BMulSmall(x, 2 ^ (n % 15)), n \div 15)

\* floor(x / 2^n)
BShr(x, n) ==
    IF n \div 15 >= Len(x) THEN << >>
    ELSE LET y == SubSeq(x, n \div 15 + 1, Len(x))
             p == 2 ^ (n % 15)
         IN  BTrim([i \in 1 .. Len(y) |->
                       (y[i] \div p) + (LimbAt(y, i + 1) % p) * (Limb \div p)])

\* x mod 2^n is not 0
BLowBits(x, n) ==
    \/ \E i \in 1 .. Min(Len(x), n \div 15) : x[i] # 0
    \/ LimbAt(x, n \div 15 + 1) % (2 ^ (n % 15)) # 0

\* bit i of x (bit 0 is the lowest)
BBit(x, i) == (LimbAt(x, i \div 15 + 1) \div (2 ^ (i % 15))) % 2

\* number of bits of the limb n
BitLen(n) == IF n = 0 THEN 0 ELSE CHOOSE b \in 1 .. 15 : 2 ^ (b - 1) <= n /\ n < 2 ^ b

\* number of bits of x (0 for 0)
BBitLen(x) == IF x = << >> THEN 0 ELSE 15 * (Len(x) - 1) + BitLen(x[Len(x)])

\* number of zero bits below the lowest 1 bit of x # 0
BTrailingZeros(x) ==
    LET i == CHOOSE i \in 1 .. Len(x) : x[i] # 0 /\ \A j \in 1 .. i - 1 : x[j] = 0
        z == CHOOSE z \in 0 .. 14 : x[i] % (2 ^ z) = 0 /\ (x[i] \div (2 ^ z)) % 2 = 1
    IN  15 * (i - 1) + z

\* r with the limb w put below it: r * Limb + w
BPushLimb(r, w) == IF r = << >> /\ w = 0 THEN << >> ELSE << w >> \o r

\* a guess of floor(r / y) for r < y * Limb, from the two top limbs of r: at least
\* the quotient and, the top limb of y having its highest bit set, at most 2 more
QuotientGuess(r, y) ==
    Min(Limb - 1, (LimbAt(r, Len(y) + 1) * Limb + LimbAt(r, Len(y))) \div y[Len(y)])

\* Long division, one limb of x at a time from limb i down: q holds the quotient
\* limbs above i, r the remainder with limb i of x taken in, g the guess of
\* quotient limb i.
RECURSIVE BDivFrom(_, _, _, _, _, _)
RECURSIVE BDivPush(_, _, _, _, _)
BDivNext(x, y, i, q, r) ==
    IF i = 1 THEN [q |-> q, r |-> r] ELSE BDivPush(x, y, i - 1, q, BPushLimb(r, x[i - 1]))

BDivFrom(x, y, i, q, r, g) ==
    IF BCmp(BMulSmall(y, g), r) > 0 THEN BDivFrom(x, y, i, q, r, g - 1)
    ELSE BDivNext(x, y, i, << g >> \o q, BSub(r, BMulSmall(y, g)))

BDivPush(x, y, i, q, r) == BDivFrom(x, y, i, q, r, QuotientGuess(r, y))

\* the division of xs by ys, both shifted left by s bits so that the top limb of
\* ys has its highest bit set; the top limbs of xs, one fewer than ys has, are
\* below ys
BDivShifted(xs, ys, s, d) == [q |-> BTrim(d.q), r |-> BShr(d.r, s)]

BDivNormal(xs, ys, s) ==
    BDivShifted(xs, ys, s,
                BDivNext(xs, ys, Len(xs) - Len(ys) + 2, << >>,
                         SubSeq(xs, Len(xs) - Len(ys) + 2, Len(xs))))

BDivShift(x, y, s) == BDivNormal(BShl(x, s), BShl(y, s), s)

\* [q |-> floor(x / y), r |-> x mod y] for y > 0
BDivMod(x, y) ==
    IF BCmp(x, y) < 0 THEN [q |-> << >>, r |-> x]
    ELSE BDivShift(x, y, 15 - BitLen(y[Len(y)]))

\* 10^j
RECURSIVE BPow10(_)
BPow10(j) ==
    IF j = 0 THEN << 1 >>
    ELSE LET h == BPow10(j \div 2)
         IN  BMulSmall(BMul(h, h), IF j % 2 = 1 THEN 10 ELSE 1)

\* A JavaScript number (IEEE 754 binary64): cls "nan", "inf" or "fin"; a finite
\* number is (-1)^neg * m * 2^e with m odd, or m = 0 and e = 0.
NaN == [cls |-> "nan", neg |-> FALSE, m |-> << >>, e |-> 0]

Inf(neg) == [cls |-> "inf", neg |-> neg, m |-> << >>, e |-> 0]

Infinity == Inf(FALSE)

Zero(neg) == [cls |-> "fin", neg |-> neg, m |-> << >>, e |-> 0]

\* the finite number (-1)^neg * m * 2^e, which must be representable
Fin(neg, m, e) ==
    IF m = << >> THEN Zero(neg)
    ELSE LET z == BTrailingZeros(m)
         IN  [cls |-> "fin", neg |-> neg, m |-> BShr(m, z), e |-> e + z]

\* round to nearest, ties to even: the binary64 value of (-1)^neg * (m + f) * 2^e,
\* where 0 <= f < 1 and sticky says that f # 0; 53 significant bits, no bit below
\* 2^-1074, Infinity from 2^1024 on
Finite(neg, m, e) == IF BBitLen(m) + e > 1024 THEN Inf(neg) ELSE Fin(neg, m, e)

\* m without its lowest drop bits, rounded according to them
RoundAt(neg, m, e, sticky, drop) ==
    LET half == drop > 0 /\ BBit(m, drop - 1) = 1
        rest == sticky \/ (drop > 1 /\ BLowBits(m, drop - 1))
        up == half /\ (rest \/ BBit(m, drop) = 1)
    IN  Finite(neg, BAdd(BShr(m, drop), IF up THEN << 1 >> ELSE << >>), e + drop)

Round(neg, m, e, sticky) ==
    RoundAt(neg, m, e, sticky, Max(Max(BBitLen(m) - 53, -1074 - e), 0))

\* the number value of an integer
Num(i) == Fin(i < 0, BNat(Abs(i)), 0)

IsZero(a) == a.cls = "fin" /\ a.m = << >>

Neg(a) == IF a.cls = "nan" THEN a ELSE [a EXCEPT !.neg = ~a.neg]

\* the binary64 value nearest to the number x, which may have more than 53 bits
RoundNum(x) == IF x.cls = "fin" THEN Round(x.neg, x.m, x.e, FALSE) ELSE x

\* the product of a and b, not rounded
Product(a, b) ==
    IF a.cls = "nan" \/ b.cls = "nan" THEN NaN
    ELSE IF a.cls = "inf" \/ b.cls = "inf"
    THEN IF IsZero(a) \/ IsZero(b) THEN NaN ELSE Inf(a.neg # b.neg)
    ELSE Fin(a.neg # b.neg, BMul(a.m, b.m), a.e + b.e)

\* a * b
Mul(a, b) == RoundNum(Product(a, b))

\* the quotient d = [q, r] of a division as a number: (q + r / y) * 2^e
RoundQuotient(neg, d, e) == Round(neg, d.q, e, d.r # << >>)

\* a / b for finite a and b other than 0, from the integer quotient of the
\* significands, a's shifted left by k bits to give at least 56 quotient bits
Quotient(a, b, k) ==
    RoundQuotient(a.neg # b.neg, BDivMod(BShl(a.m, k), b.m), a.e - b.e - k)

\* a / b
Div(a, b) ==
    IF a.cls = "nan" \/ b.cls = "nan" THEN NaN
    ELSE IF a.cls = "inf"
    THEN IF b.cls = "inf" THEN NaN ELSE Inf(a.neg # b.neg)
    ELSE IF b.cls = "inf" THEN Zero(a.neg # b.neg)
    ELSE IF IsZero(b)
    THEN IF IsZero(a) THEN NaN ELSE Inf(a.neg # b.neg)
    ELSE IF IsZero(a) THEN Zero(a.neg # b.neg)
    ELSE Quotient(a, b, Max(0, 56 + BBitLen(b.m) - BBitLen(a.m)))

\* x * 2^e with the sign xneg plus y * 2^e with the sign yneg
SumAligned(xneg, x, yneg, y, e) ==
    IF xneg = yneg THEN Fin(xneg, BAdd(x, y), e)
    ELSE IF x = y THEN Zero(FALSE)
    ELSE IF BCmp(x, y) > 0 THEN Fin(xneg, BSub(x, y), e)
    ELSE Fin(yneg, BSub(y, x), e)

SumAt(a, b, e) == SumAligned(a.neg, BShl(a.m, a.e - e), b.neg, BShl(b.m, b.e - e), e)

\* the sum of a and b, not rounded (x + -x is +0)
Sum(a, b) ==
    IF a.cls = "nan" \/ b.cls = "nan" THEN NaN
    ELSE IF a.cls = "inf"
    THEN IF b.cls = "inf" /\ a.neg # b.neg THEN NaN ELSE a
    ELSE IF b.cls = "inf" THEN b
    ELSE SumAt(a, b, Min(a.e, b.e))

\* a + b
Add(a, b) == RoundNum(Sum(a, b))

\* a - b
Sub(a, b) == Add(a, Neg(b))

\* a < b (false when either side is NaN)
Negative(d) == d.cls # "nan" /\ d.neg /\ ~IsZero(d)

Less(a, b) == Negative(Sum(a, Neg(b)))

\* JavaScript truthiness of a number: 0, -0 and NaN are falsy
Truthy(a) == a.cls = "inf" \/ (a.cls = "fin" /\ a.m # << >>)

\* short division of the limbs lo .. hi of x by k, rem being the remainder of the
\* limbs above hi: [q, r]
RECURSIVE BDivSmallRange(_, _, _, _, _)
BDivSmallRange(x, k, lo, hi, rem) ==
    IF lo = hi
    THEN LET cur == rem * Limb + x[lo]
         IN  [q |-> << cur \div k >>, r |-> cur % k]
    ELSE LET mid == (lo + hi) \div 2
             h == BDivSmallRange(x, k, mid + 1, hi, rem)
             l == BDivSmallRange(x, k, lo, mid, h.r)
         IN  [q |-> l.q \o h.q, r |-> l.r]

\* [q |-> floor(x / k), r |-> x mod k] for 0 < k < Limb
BDivSmall(x, k) ==
    IF x = << >> THEN [q |-> << >>, r |-> 0]
    ELSE LET d == BDivSmallRange(x, k, 1, Len(x), 0) IN [q |-> BTrim(d.q), r |-> d.r]

\* the last count decimal digits of x, most significant first
DecDigits(x, count) ==
    [i \in 1 .. count |-> BDivSmall(BDivMod(x, BPow10(count - i)).q, 10).r]

\* x * 2^p2 * 10^p10 compared with y * 2^q2 * 10^q10: -1, 0 or 1
CmpScaled(x, p2, p10, y, q2, q10) ==
    BCmp(BShl(BMul(x, BPow10(Max(p10 - q10, 0))), Max(p2 - q2, 0)),
         BShl(BMul(y, BPow10(Max(q10 - p10, 0))), Max(q2 - p2, 0)))

\* the n with 10^(n-1) <= a < 10^n, searched from the guess n (a finite, a > 0)
RECURSIVE Exp10(_, _)
Exp10(a, n) ==
    IF CmpScaled(a.m, a.e, 0, << 1 >>, 0, n) >= 0 THEN Exp10(a, n + 1)
    ELSE IF CmpScaled(a.m, a.e, 0, << 1 >>, 0, n - 1) < 0 THEN Exp10(a, n - 1)
    ELSE n

\* The numbers that read back as a (finite, a > 0), in units of 2^e2: a itself
\* (v) and the halfway points to its neighbours (lo, hi), which read back as a
\* when a's significand is even (closed). mant * 2^ex is a with the spacing 2^ex
\* of the numbers around it.
IntervalOf(mant, ex, pow2) ==
    [v |-> BShl(mant, 2), lo |-> BSub(BShl(mant, 2), IF pow2 THEN << 1 >> ELSE << 2 >>),
     hi |-> BAdd(BShl(mant, 2), << 2 >>), closed |-> BBit(mant, 0) = 0, e2 |-> ex - 2]

IntervalAt(a, ex) == IntervalOf(BShl(a.m, a.e - ex), ex, a.m = << 1 >> /\ ex > -1074)

Interval(a) == IntervalAt(a, Max(a.e - (53 - BBitLen(a.m)), -1074))

\* The choice between the decimals d and d1 = d + 1 of k digits (times 10^(n-k)):
\* lowOk and highOk say which of them reads back as a, mid compares their
\* midpoint with a. [ok, digits, n] stands for 0.d1...dk * 10^n.
Pick(n, k, d, d1, lowOk, highOk, mid) ==
    IF ~lowOk /\ ~highOk THEN [ok |-> FALSE, digits |-> << >>, n |-> n]
    ELSE IF lowOk /\ (~highOk \/ mid > 0 \/ (mid = 0 /\ BBit(d, 0) = 0))
    THEN [ok |-> TRUE, digits |-> DecDigits(d, k), n |-> n]
    ELSE IF d1 = BPow10(k) THEN [ok |-> TRUE, digits |-> << 1 >>, n |-> n + 1]
    ELSE [ok |-> TRUE, digits |-> DecDigits(d1, k), n |-> n]

Inside(closed, c) == c > 0 \/ (closed /\ c = 0)

NearestOf(iv, n, k, d, d1) ==
    Pick(n, k, d, d1,
         Inside(iv.closed, CmpScaled(d, 0, n - k, iv.lo, iv.e2, 0)),
         Inside(iv.closed, CmpScaled(iv.hi, iv.e2, 0, d1, 0, n - k)),
         CmpScaled(BAdd(BAdd(d, d), << 1 >>), 0, n - k, BAdd(iv.v, iv.v), iv.e2, 0))

NearestIn(iv, n, k, d) == NearestOf(iv, n, k, d, BAdd(d, << 1 >>))

\* The decimal of k digits nearest to a (10^(n-1) <= a < 10^n) that reads back
\* as a, if there is one. d17 holds the first 17 decimal digits of a; the
\* candidates are its first k digits and that number plus one.
Nearest(iv, n, d17, k) == NearestIn(iv, n, k, BDivMod(d17, BPow10(17 - k)).q)

\* The shortest decimal that reads back as a: the first k, from k up, for which
\* there is one (17 digits always do)
RECURSIVE ShortestFrom(_, _, _, _)
Found(iv, n, d17, k, r) == IF r.ok THEN r ELSE ShortestFrom(iv, n, d17, k + 1)

ShortestFrom(iv, n, d17, k) == Found(iv, n, d17, k, Nearest(iv, n, d17, k))

\* floor(a * 10^(17 - n)): the first 17 decimal digits of a
Digits17(a, n) ==
    BDivMod(BShl(BMul(a.m, BPow10(Max(17 - n, 0))), Max(a.e, 0)),
            BShl(BPow10(Max(n - 17, 0)), Max(-a.e, 0))).q

ShortestAt(a, n) == ShortestFrom(Interval(a), n, Digits17(a, n), 1)

\* The shortest decimal that reads back as a (finite, a > 0): as few digits as
\* possible, and the decimal nearest to a among those (Number::toString, step 5)
Shortest(a) ==
    ShortestAt(a, Exp10(a, ((BBitLen(a.m) + a.e - 1) * 30103) \div 100000 + 1))

DigitChars == << "0", "1", "2", "3", "4", "5", "6", "7", "8", "9" >>

\* the characters of the decimal digits ds
DigitString(ds) == [i \in 1 .. Len(ds) |-> DigitChars[ds[i] + 1]]

Zeros(count) == [i \in 1 .. count |-> "0"]

RECURSIVE NatDigits(_)
NatDigits(i) == IF i < 10 THEN << i >> ELSE Append(NatDigits(i \div 10), i % 10)

\* the k digit characters ds of 0.d1...dk * 10^n laid out as Number::toString
\* does: plain, with a decimal point, or in exponent notation
Layout(ds, k, n) ==
    IF k <= n /\ n <= 21 THEN ds \o Zeros(n - k)
    ELSE IF 0 < n /\ n <= 21 THEN SubSeq(ds, 1, n) \o << "." >> \o SubSeq(ds, n + 1, k)
    ELSE IF -6 < n /\ n <= 0 THEN << "0", "." >> \o Zeros(-n) \o ds
    ELSE SubSeq(ds, 1, 1)
         \o (IF k = 1 THEN << >> ELSE << "." >> \o SubSeq(ds, 2, k))
         \o << "e", IF n - 1 < 0 THEN "-" ELSE "+" >>
         \o DigitString(NatDigits(Abs(n - 1)))

Decimal(s) == Layout(DigitString(s.digits), Len(s.digits), s.n)

\* Number::toString of a finite a > 0
PositiveToString(a) == Decimal(Shortest(a))

\* Number::toString(a), a string being the sequence of its characters
NumberToString(a) ==
    IF a.cls = "nan" THEN << "N", "a", "N" >>
    ELSE IF IsZero(a) THEN << "0" >>
    ELSE (IF a.neg THEN << "-" >> ELSE << >>)
         \o (IF a.cls = "inf" THEN << "I", "n", "f", "i", "n", "i", "t", "y" >>
             ELSE PositiveToString(a))

\* the string made of the characters chars
RECURSIVE Join(_)
Join(chars) == IF chars = << >> THEN "" ELSE Head(chars) \o Join(Tail(chars))

\* ---------------------------------------------------------------- state
VARIABLES
    \* --- wallet panels (initWalletScroll)
    panels,        \* the .wallet elements in document order:
                   \*   [inner: has a .container, offsetHeight: its height]
    innerHeight,   \* window.innerHeight
    marginBottom,  \* panel index -> inline style.marginBottom, a string ("" when
                   \*   not set)
    timelines,     \* scroll-triggered timelines registered with gsap, oldest first
    console,       \* console output of initWalletScroll
    builds,        \* number of initWalletScroll calls made so far
    relayouts,     \* number of layout changes so far
    \* --- the page
    present,       \* what exists on the page: DOM elements and script modules
    innerWidth,    \* window.innerWidth
    trackWidth,    \* .header__logo-track offsetWidth
    logoWidth,     \* .header__logo offsetWidth
    readyState,    \* document.readyState when the script's last statement reads it
    ready,         \* initApp has been called for the page load
    listeners,     \* event listener lists: <<target, event type>> -> how many times
                   \*   the module's handler is in the list
    \* --- theme
    storedTheme,   \* localStorage 'theme' (Absent when the key is not there)
    dataTheme,     \* <html data-theme>
    ariaPressed,   \* #theme-toggle aria-pressed
    statusBarContent, \* #status-bar-theme content
    toggleTrail,   \* history: the theme state before each of the last two toggle
                   \*   clicks made in a row (emptied when initApp runs)
    \* --- modal popups and the waitlist form
    popupActive,   \* popup -> has class 'active'
    overlayActive, \* #popup-overlay has class 'active'
    bodyOverflow,  \* document.body.style.overflow ("hidden" = scroll locked)
    emailValue,    \* value of the form's email input
    alerts,        \* number of alert() dialogs shown
    sent,          \* payloads of the fetch calls made by sendEmail, oldest first
    delivery,      \* the state of each of those calls: "pending", "ok", "failed"
                   \*   (response not ok) or "threw" (fetch or json() rejected)
    awaiting,      \* where each of those calls is suspended: "fetch" (at `await
                   \*   fetch`), "json ok" or "json not ok" (at `await
                   \*   response.json()`, with response.ok true or false), "none"
                   \*   once it has returned
    errors,        \* number of console.error lines written by sendEmail
    doneTimers,    \* remaining ms of the pending 300ms timers, oldest first
    raised,        \* an exception has left a handler or initApp uncaught
    \* --- scroll animations
    swipeTimelines,  \* live timelines created by SwipeSection.init
    meetTimelines,   \* live timelines created by MeetSection.init
    meetClasses,     \* classes added to the .meet element
    meetTextClasses, \* index of a .meet__text element -> the classes added to it
    logoClosures,    \* one per LogoScrollAnimation.init call: its scrollTriggerInstance
                     \*   (<< >> = null, <<x>> = live tween to x), its 100ms timer and
                     \*   its resizeTimer (remaining ms, -1 = none pending)
    gsapCalls,       \* number of gsap.timeline / gsap.to registrations made by main.js
    \* --- time
    resizes,       \* number of resize events so far
    sinceResize,   \* ms since the last resize event, saturating at ResizeDebounce
    \* --- history
    lastEvent,     \* the handler that ran last ("load" before any has run)
    joinWhileConfirming, \* the join-waitlist handler has run while the confirmation
                         \*   popup was open or its 300ms timer was pending
    submitted      \* the value of the email input at each submit event, oldest first

walletVars == <<panels, innerHeight, marginBottom, timelines, console, builds, relayouts>>

layoutVars == <<present, innerWidth, trackWidth, logoWidth, readyState>>

themeVars == <<storedTheme, dataTheme, ariaPressed, statusBarContent, toggleTrail>>

modalVars == <<popupActive, overlayActive, bodyOverflow>>

formVars == <<emailValue, alerts, sent, delivery, awaiting, errors>>

animVars ==
    <<swipeTimelines, meetTimelines, meetClasses, meetTextClasses, logoClosures, gsapCalls>>

pageVars == <<layoutVars, ready, listeners, themeVars, modalVars, formVars, doneTimers, raised,
              animVars, resizes, sinceResize, lastEvent, joinWhileConfirming, submitted>>

vars == <<walletVars, pageVars>>

\* ------------------------------------------------------ initWalletScroll
\* the heights of the panels' content and of the window
Heights == 0 .. MaxHeight

\* the measurements initWalletScroll may find; offsetHeight and innerHeight are
\* integers below 2^31. Small heights; 22px of content in a 7px window, where
\* 22 * (15 / 22) is not 15; the 2000px content in an 800px window; the same
\* 22 : 7 proportion scaled by 2^19 and 2^20, where the margin is off by 2^-30
\* and 2^-29 pixel; and the largest heights, a pixel above the window, half
\* above it and far above it
ContentHeights == 0 .. MaxMeasure \cup {22, 2000, 11534336, 23068672, 2147483647}

WindowHeights ==
    0 .. MaxMeasure \cup {7, 800, 3670016, 7340032, 1073741824, 2147483646}

\* the literal 0.9: the number nearest to 9/10
ScaleDuration == Div(Num(9), Num(10))

\* the literal 0.1: the number nearest to 1/10
FadeDuration == Div(Num(1), Num(10))

\* mutant: panels.pop() is forgotten, the last panel stays in the list
PopNothing(s) == s

\* panels.pop(): the array without its last element (a no-op on an empty array)
Pop(s) == IF Len(s) = 0 THEN s ELSE SubSeq(s, 1, Len(s) - 1)

\* let difference = panelHeight - windowHeight
Difference(panelHeight, windowHeight) == panelHeight - windowHeight

\* mutant: the ratio is not clamped to 0 when the content fits the window
FakeScrollRatioUnclamped(panelHeight, windowHeight) ==
    LET difference == Difference(panelHeight, windowHeight)
    IN  Div(Num(difference), Num(difference + windowHeight))

\* difference > 0 ? difference / (difference + windowHeight) : 0
FakeScrollRatio(panelHeight, windowHeight) ==
    LET difference == Difference(panelHeight, windowHeight)
    IN  IF difference > 0
        THEN Div(Num(difference), Num(difference + windowHeight))
        ELSE Num(0)

\* panelHeight * fakeScrollRatio
MarginValue(panelHeight, fakeScrollRatio) == Mul(Num(panelHeight), fakeScrollRatio)

\* x + "px"
Px(x) == Join(NumberToString(x)) \o "px"

\* mutant: the "- 1" is left out
FakeScrollDurationPlusOne(fakeScrollRatio) == Div(Num(1), Sub(Num(1), fakeScrollRatio))

\* 1 / (1 - fakeScrollRatio) - 1
FakeScrollDuration(fakeScrollRatio) ==
    Sub(Div(Num(1), Sub(Num(1), fakeScrollRatio)), Num(1))

\* the tweens added to the timeline of one panel
Tweens(fakeScrollRatio, windowHeight) ==
    (IF Truthy(fakeScrollRatio)
     THEN << [target |-> "innerpanel", kind |-> "fakeScroll",
              y |-> windowHeight, duration |-> FakeScrollDuration(fakeScrollRatio)] >>
     ELSE << >>)
    \o << [target |-> "panel", kind |-> "scaleOpacity", y |-> 0, duration |-> ScaleDuration],
          [target |-> "panel", kind |-> "opacityToZero", y |-> 0, duration |-> FadeDuration] >>

\* what the body of panels.forEach computes from the two measurements: the
\* ratio, the value of panelHeight * fakeScrollRatio + "px" (assigned to the
\* margin when the ratio is truthy) and the tweens
Computed(panelHeight, windowHeight, fakeScrollRatio) ==
    [fakeScrollRatio |-> fakeScrollRatio,
     marginBottom |-> Px(MarginValue(panelHeight, fakeScrollRatio)),
     tweens |-> Tweens(fakeScrollRatio, windowHeight)]

\* the same for every pair of heights that is measured in the specifications,
\* evaluated once
MeasuredHeights == Heights \cup ContentHeights \cup WindowHeights

ComputedFor ==
    [panelHeight \in MeasuredHeights, windowHeight \in MeasuredHeights |->
        Computed(panelHeight, windowHeight, FakeScrollRatio(panelHeight, windowHeight))]

Measurement(panelHeight, windowHeight) ==
    IF panelHeight \in MeasuredHeights /\ windowHeight \in MeasuredHeights
    THEN ComputedFor[panelHeight, windowHeight]
    ELSE Computed(panelHeight, windowHeight, FakeScrollRatio(panelHeight, windowHeight))

\* the timeline registered for panel i (1-based) with the measurements taken and
\* what was computed from them
TimelineOf(i, panelHeight, windowHeight, computed) ==
    [trigger |-> i,
     start |-> "bottom bottom",
     pin |-> TRUE,
     pinSpacing |-> FALSE,
     scrub |-> TRUE,
     panelHeight |-> panelHeight,
     windowHeight |-> windowHeight,
     fakeScrollRatio |-> computed.fakeScrollRatio,
     tweens |-> computed.tweens]

Timeline(i, panelHeight, windowHeight) ==
    TimelineOf(i, panelHeight, windowHeight, Measurement(panelHeight, windowHeight))

\* end: () => fakeScrollRatio ? `+=${innerpanel.offsetHeight}` : "bottom top",
\* evaluated by the engine against the current layout
End(t) ==
    IF Truthy(t.fakeScrollRatio)
    THEN [kind |-> "+=", px |-> panels[t.trigger].offsetHeight]
    ELSE [kind |-> "bottom top", px |-> 0]

\* the body of panels.forEach for a panel i with inner content
Scheduled(st, i, panelHeight, windowHeight, computed) ==
    [mb  |-> IF Truthy(computed.fakeScrollRatio)
             THEN [st.mb EXCEPT ![i] = computed.marginBottom]
             ELSE st.mb,
     tls |-> Append(st.tls, TimelineOf(i, panelHeight, windowHeight, computed)),
     out |-> Append(st.out, [level |-> "log", panel |-> panelHeight])]

\* the body of panels.forEach for panel i, on the state st = [mb, tls, out]
PanelStep(st, i, ps, windowHeight) ==
    IF ~ps[i].inner
    THEN [st EXCEPT !.out = Append(@, [level |-> "warn", panel |-> i - 1])]
    ELSE Scheduled(st, i, ps[i].offsetHeight, windowHeight,
                   Measurement(ps[i].offsetHeight, windowHeight))

\* panels.forEach over the first k panels
RECURSIVE ForEachPanel(_, _, _, _)
ForEachPanel(st, k, ps, windowHeight) ==
    IF k = 0 THEN st
    ELSE PanelStep(ForEachPanel(st, k - 1, ps, windowHeight), k, ps, windowHeight)

\* the state after one call of initWalletScroll()
WalletScrollResult(mb, tls, out, ps, windowHeight) ==
    ForEachPanel([mb |-> mb, tls |-> tls, out |-> out], Len(Pop(ps)), ps, windowHeight)

initWalletScroll ==
    /\ builds < MaxBuilds
    /\ LET r == WalletScrollResult(marginBottom, timelines, console, panels, innerHeight)
       IN  /\ marginBottom' = r.mb
           /\ timelines' = r.tls
           /\ console' = r.out
    /\ builds' = builds + 1
    /\ UNCHANGED <<panels, innerHeight, relayouts, pageVars>>

\* ------------------------------------------------------------ the page
\* program constants (main.js)
LogoMinWidth == 480
LogoInitDelay == 100
ResizeDebounce == 250
DoneDelay == 300

\* time advances in steps of half the shortest delay
TickMs == LogoInitDelay \div 2

Absent == "<absent>"

Popups == {"waitlist", "done"}

\* the element of a popup: #waitlist-popup, #done-popup
PopupElement(p) == IF p = "waitlist" THEN "waitlistPopup" ELSE "donePopup"

\* the .popup__close buttons: one in each popup, and one outside every popup
CloseButtons == {"closeWaitlist", "closeDone", "closeStray"}

\* e.currentTarget.closest('.popup') ("none" = null)
Closest(button) ==
    CASE button = "closeWaitlist" -> "waitlist"
      [] button = "closeDone" -> "done"
      [] OTHER -> "none"

Elements ==
    {"themeToggle", "statusBarMeta", "waitlistPopup", "donePopup", "popupOverlay",
     "waitlistForm", "emailInput", "joinWaitlistButton", "swipe", "meet", "meetText",
     "logoTrack", "logo", "headerInner"} \cup CloseButtons

\* script modules that initApp calls
Modules == {"HeaderButtonBackground"}

\* ------------------------------------------------------------ event listeners
\* the listener lists the modules add their handlers to
ListenerKeys ==
    { <<e, "click">> : e \in Elements } \cup { <<"document", "keydown">>, <<"waitlistForm", "submit">> }

\* mutant: a handler that is already in the list is added once more
addEventListenerAgain(count) == count + 1

\* target.addEventListener(type, handler): a handler that is already in the list
\* is not added a second time
addEventListener(count) == IF count = 0 THEN 1 ELSE count

\* addEventListener on every list in keys
AddListeners(ls, keys) ==
    [l \in ListenerKeys |-> IF l \in keys THEN addEventListener(ls[l]) ELSE ls[l]]

\* is the handler in list l
Registered(l) == listeners[l] > 0

\* ----------------------------------------------------------- ThemeSwitcher
ThemeState ==
    [stored |-> storedTheme, data |-> dataTheme,
     pressed |-> ariaPressed, status |-> statusBarContent]

\* localStorage.getItem('theme') || 'dark'
getSavedTheme(stored) == IF stored = Absent \/ stored = "" THEN "dark" ELSE stored

\* mutant: the theme is applied to the document but not written to localStorage
setThemeNotStored(th, theme) ==
    [stored  |-> th.stored,
     data    |-> theme,
     pressed |-> IF "themeToggle" \in present
                 THEN (IF theme = "dark" THEN "true" ELSE "false")
                 ELSE th.pressed,
     status  |-> IF "statusBarMeta" \in present
                 THEN (IF theme = "dark" THEN "#121212" ELSE "#F7F7F7")
                 ELSE th.status]

\* mutant: aria-pressed is set to 'true' for the light theme
setThemePressedInverted(th, theme) ==
    [stored  |-> theme,
     data    |-> theme,
     pressed |-> IF "themeToggle" \in present
                 THEN (IF theme = "dark" THEN "false" ELSE "true")
                 ELSE th.pressed,
     status  |-> IF "statusBarMeta" \in present
                 THEN (IF theme = "dark" THEN "#121212" ELSE "#F7F7F7")
                 ELSE th.status]

setTheme(th, theme) ==
    [stored  |-> theme,
     data    |-> theme,
     pressed |-> IF "themeToggle" \in present
                 THEN (IF theme = "dark" THEN "true" ELSE "false")
                 ELSE th.pressed,
     status  |-> IF "statusBarMeta" \in present
                 THEN (IF theme = "dark" THEN "#121212" ELSE "#F7F7F7")
                 ELSE th.status]

\* ThemeSwitcher.init
ThemeSwitcherInit(th) == setTheme(th, getSavedTheme(th.stored))

handleToggle(th) ==
    LET currentTheme == getSavedTheme(th.stored)
        newTheme == IF currentTheme = "dark" THEN "light" ELSE "dark"
    IN  setTheme(th, newTheme)

\* a click runs the handler once for every time it is in the listener list
RECURSIVE DispatchToggle(_, _)
DispatchToggle(th, n) == IF n = 0 THEN th ELSE handleToggle(DispatchToggle(th, n - 1))

\* ThemeSwitcher.setupEventListeners
ThemeListeners ==
    IF "themeToggle" \in present THEN { <<"themeToggle", "click">> } ELSE {}

ApplyTheme(th) ==
    /\ storedTheme' = th.stored
    /\ dataTheme' = th.data
    /\ ariaPressed' = th.pressed
    /\ statusBarContent' = th.status

\* -------------------------------------------------------------- ModalPopup
ModalState ==
    [active |-> popupActive, overlay |-> overlayActive, overflow |-> bodyOverflow,
     threw |-> FALSE]

toggleBodyScroll(m, disable) == [m EXCEPT !.overflow = IF disable THEN "hidden" ELSE ""]

\* mutant: without the null check, popup.classList of a missing popup throws
openPopupUnguarded(m, popup) ==
    IF popup = "none" \/ PopupElement(popup) \notin present
    THEN [m EXCEPT !.overlay = IF "popupOverlay" \in present THEN TRUE ELSE @,
                   !.threw = TRUE]
    ELSE toggleBodyScroll(
             [m EXCEPT !.overlay = IF "popupOverlay" \in present THEN TRUE ELSE @,
                       !.active[popup] = TRUE],
             TRUE)

openPopup(m, popup) ==
    IF popup = "none" \/ PopupElement(popup) \notin present THEN m
    ELSE toggleBodyScroll(
             [m EXCEPT !.overlay = IF "popupOverlay" \in present THEN TRUE ELSE @,
                       !.active[popup] = TRUE],
             TRUE)

\* mutant: the overlay keeps its 'active' class
closePopupKeepsOverlay(m, popup) ==
    IF popup = "none" \/ PopupElement(popup) \notin present THEN m
    ELSE toggleBodyScroll([m EXCEPT !.active[popup] = FALSE], FALSE)

\* mutant: the popup keeps its 'active' class
closePopupKeepsActive(m, popup) ==
    IF popup = "none" \/ PopupElement(popup) \notin present THEN m
    ELSE toggleBodyScroll(
             [m EXCEPT !.overlay = IF "popupOverlay" \in present THEN FALSE ELSE @],
             FALSE)

\* mutant: the null check comes after the overlay and the scroll lock are cleared
closePopupChecksLate(m, popup) ==
    LET cleared == toggleBodyScroll(
                       [m EXCEPT !.overlay = IF "popupOverlay" \in present THEN FALSE ELSE @],
                       FALSE)
    IN  IF popup = "none" \/ PopupElement(popup) \notin present THEN cleared
        ELSE [cleared EXCEPT !.active[popup] = FALSE]

closePopup(m, popup) ==
    IF popup = "none" \/ PopupElement(popup) \notin present THEN m
    ELSE toggleBodyScroll(
             [m EXCEPT !.active[popup] = FALSE,
                       !.overlay = IF "popupOverlay" \in present THEN FALSE ELSE @],
             FALSE)

closeAllPopups(m) ==
    toggleBodyScroll(
        [m EXCEPT !.active = [p \in Popups |->
                                 IF PopupElement(p) \in present THEN FALSE ELSE m.active[p]],
                  !.overlay = IF "popupOverlay" \in present THEN FALSE ELSE @],
        FALSE)

ApplyModal(m) ==
    /\ popupActive' = m.active
    /\ overlayActive' = m.overlay
    /\ bodyOverflow' = m.overflow
    /\ raised' = (raised \/ m.threw)

\* Strings are sequences of characters. The characters String.prototype.trim
\* removes are the WhiteSpace and LineTerminator code points of ECMAScript; one
\* that a TLA+ string cannot hold is written as its code point, "U+00A0".
WhiteSpace ==
    { "\t", "U+000B", "\f", " ", "U+00A0", "U+FEFF", "U+1680", "U+2000", "U+2001",
      "U+2002", "U+2003", "U+2004", "U+2005", "U+2006", "U+2007", "U+2008", "U+2009",
      "U+200A", "U+202F", "U+205F", "U+3000" }

LineTerminator == { "\n", "\r", "U+2028", "U+2029" }

StrWhiteSpaceChar == WhiteSpace \cup LineTerminator

RECURSIVE TrimStart(_)
TrimStart(str) ==
    IF str # << >> /\ Head(str) \in StrWhiteSpaceChar THEN TrimStart(Tail(str)) ELSE str

RECURSIVE TrimEnd(_)
TrimEnd(str) ==
    IF str # << >> /\ str[Len(str)] \in StrWhiteSpaceChar
    THEN TrimEnd(SubSeq(str, 1, Len(str) - 1))
    ELSE str

\* String.prototype.trim
Trim(str) == TrimEnd(TrimStart(str))

\* String.prototype.includes for one character
Includes(str, c) == \E i \in 1 .. Len(str) : str[i] = c

\* mutant: a three-character address passes
validateEmailAtLeast3(email) == email # << >> /\ Includes(email, "@") /\ Len(email) >= 3

\* email && email.includes('@') && email.length > 3
validateEmail(email) == email # << >> /\ Includes(email, "@") /\ Len(email) > 3

\* what the user may have typed into the email input
EmailInputs ==
    { << >>,
      <<"a", "@", "b">>,
      <<"a", "b", "@", "c", "d", "e">>,
      <<" ", "a", "@", "b", " ">>,
      <<"\t", "a", "@", "b", "c", "U+00A0", "\n">> }

\* the characters of the generated input strings: a blank, a tab, a letter, the
\* at sign
EmailChars == {" ", "\t", "a", "@"}

\* every string of at most MaxEmailLen of these characters, and two longer examples
EmailStrings ==
    UNION { [1 .. n -> EmailChars] : n \in 0 .. MaxEmailLen }
    \cup { <<"a", "b", "@", "c", "d", "e">>,
           <<"n", "o", "a", "t", "s", "i", "g", "n">> }

\* ModalPopup.setupEventListeners
ModalListeners ==
    (IF "joinWaitlistButton" \in present THEN { <<"joinWaitlistButton", "click">> } ELSE {})
    \cup { <<b, "click">> : b \in CloseButtons \cap present }
    \cup (IF "popupOverlay" \in present THEN { <<"popupOverlay", "click">> } ELSE {})
    \cup { <<"document", "keydown">> }
    \cup (IF "waitlistForm" \in present THEN { <<"waitlistForm", "submit">> } ELSE {})
    \cup { <<PopupElement(p), "click">> : p \in { q \in Popups : PopupElement(q) \in present } }

\* --------------------------------------------------------- scroll animations
\* SwipeSection.init: does it register a timeline
SwipeSectionInit == "swipe" \in present

\* the .meet__text elements of the page, by their index in querySelectorAll
MeetTextElements == IF "meetText" \in present THEN 0 .. MaxMeetTexts - 1 ELSE {}

\* MeetSection.init: does it get past its early return
MeetSectionInit == "meet" \in present /\ MeetTextElements # {}

\* the literal 0.1: the number nearest to 1/10
WowDelayStep == Div(Num(1), Num(10))

\* `wow-delay-${index * 0.1}s`
WowDelayClass(index) ==
    "wow-delay-" \o Join(NumberToString(Mul(Num(index), WowDelayStep))) \o "s"

\* the delay class of each possible text element
WowDelayClasses == [index \in 0 .. MaxMeetTexts - 1 |-> WowDelayClass(index)]

\* MeetSection.init, the forEach over the text elements: 'wow' where it is not
\* there yet, and the delay class
AddWowClasses(classes) ==
    [index \in 0 .. MaxMeetTexts - 1 |->
        IF index \in MeetTextElements
        THEN classes[index] \cup {"wow", WowDelayClasses[index]}
        ELSE classes[index]]

AnimationClasses == {"animate__animated", "animate__fadeInUp"}

\* addAnimationClasses
addAnimationClasses(classes) ==
    [index \in 0 .. MaxMeetTexts - 1 |->
        IF index \in MeetTextElements THEN classes[index] \cup AnimationClasses
        ELSE classes[index]]

\* removeAnimationClasses
removeAnimationClasses(classes) ==
    [index \in 0 .. MaxMeetTexts - 1 |->
        IF index \in MeetTextElements THEN classes[index] \ AnimationClasses
        ELSE classes[index]]

\* the ScrollTrigger callbacks of a meet timeline
MeetCallbacks == {"onEnter", "onLeave", "onEnterBack", "onLeaveBack"}

\* LogoScrollAnimation.init: does it get past its early return
LogoScrollAnimationInit ==
    "logoTrack" \in present /\ "logo" \in present /\ "headerInner" \in present

\* the closure state of a fresh LogoScrollAnimation.init call
NewLogoClosure == [scrollTriggerInstance |-> << >>, initTimer |-> LogoInitDelay, resizeTimer |-> -1]

\* updateAnimation of one closure: kill the existing ScrollTrigger, create a new one
updateAnimation(c) ==
    LET killed == [c EXCEPT !.scrollTriggerInstance = << >>]
        maxMovement == Max(0, trackWidth - logoWidth)
    IN  [killed EXCEPT !.scrollTriggerInstance = << maxMovement >>]

\* the resize listener of one closure: clearTimeout(resizeTimer); setTimeout(..., 250)
LogoOnResize(c) == [c EXCEPT !.resizeTimer = ResizeDebounce]

\* HeaderButtonBackground.init(): the module is called by initApp but defined
\* outside main.js; where it is loaded, its init completes like that of the other
\* modules (a missing element is skipped); where it is not, the call throws
HeaderButtonBackgroundInit == "HeaderButtonBackground" \in present

\* initApp, run with window.innerWidth = width
initApp(width) ==
    /\ raised' = (raised \/ ~HeaderButtonBackgroundInit)
    /\ ApplyTheme(ThemeSwitcherInit(ThemeState))
    /\ toggleTrail' = << >>
    /\ listeners' = AddListeners(AddListeners(listeners, ThemeListeners), ModalListeners)
    /\ swipeTimelines' = swipeTimelines + (IF SwipeSectionInit THEN 1 ELSE 0)
    /\ meetTimelines' = meetTimelines + (IF MeetSectionInit THEN 1 ELSE 0)
    /\ meetClasses' = meetClasses
    /\ meetTextClasses' = IF MeetSectionInit THEN AddWowClasses(meetTextClasses)
                          ELSE meetTextClasses
    /\ gsapCalls' = gsapCalls + (IF SwipeSectionInit THEN 1 ELSE 0)
                              + (IF MeetSectionInit THEN 1 ELSE 0)

\* does initApp reach LogoScrollAnimation.init and get past its early return:
\* HeaderButtonBackground.init() must not throw and the window must be wide enough
InitAppStartsLogo(width) ==
    /\ HeaderButtonBackgroundInit
    /\ width > LogoMinWidth
    /\ LogoScrollAnimationInit

\* document.readyState
ReadyStates == {"loading", "interactive", "complete"}

\* has the script been evaluated to its end (normally or by an exception): on a
\* loading document it only registers listeners; on a loaded one it calls initApp
Evaluated == readyState = "loading" \/ ready

\* is initApp in the resize listener list of window: added at line 847 on a
\* loading document; on a loaded one at line 850, which is reached when the
\* initApp() call of line 849 has returned
ResizeWired ==
    IF readyState = "loading" THEN TRUE ELSE ready /\ HeaderButtonBackgroundInit

\* the initApp call of the page load: the DOMContentLoaded listener of a document
\* the script found loading, or the call the script itself makes on a loaded
\* document
PageReady ==
    /\ ~ready
    /\ ready' = TRUE
    /\ initApp(innerWidth)
    /\ logoClosures' = IF InitAppStartsLogo(innerWidth)
                       THEN Append(logoClosures, NewLogoClosure)
                       ELSE logoClosures
    /\ lastEvent' = "ready"
    /\ UNCHANGED <<walletVars, layoutVars, modalVars, formVars, doneTimers,
                   resizes, sinceResize, joinWhileConfirming, submitted>>

Widths == {LogoMinWidth, LogoMinWidth + 1}

\* a window resize event, dispatched once the script has been evaluated: initApp
\* runs again where it is a resize listener, and so does the resize listener of
\* every LogoScrollAnimation.init call made before this event
Resize ==
    /\ resizes < MaxResizes
    /\ Evaluated
    /\ \E w \in Widths, h \in 0 .. MaxHeight :
          /\ innerWidth' = w
          /\ innerHeight' = h
          /\ IF ResizeWired
             THEN /\ initApp(w)
                  /\ logoClosures' =
                        [k \in 1 .. Len(logoClosures) |-> LogoOnResize(logoClosures[k])]
                        \o (IF InitAppStartsLogo(w) THEN << NewLogoClosure >> ELSE << >>)
             ELSE /\ logoClosures' =
                        [k \in 1 .. Len(logoClosures) |-> LogoOnResize(logoClosures[k])]
                  /\ UNCHANGED <<raised, themeVars, listeners, swipeTimelines,
                                 meetTimelines, meetClasses, meetTextClasses, gsapCalls>>
    /\ resizes' = resizes + 1
    /\ sinceResize' = 0
    /\ lastEvent' = "resize"
    /\ UNCHANGED <<panels, marginBottom, timelines, console, builds, relayouts,
                   present, trackWidth, logoWidth, readyState, ready, modalVars, formVars, doneTimers,
                   joinWhileConfirming, submitted>>

\* A ScrollTrigger callback of a timeline registered by MeetSection.init, as the
\* page is scrolled past the trigger in either direction: onEnter and onEnterBack
\* mark the section and its texts, onLeave and onLeaveBack unmark them.
MeetScroll ==
    /\ meetTimelines > 0
    /\ \E callback \in MeetCallbacks :
          IF callback \in {"onEnter", "onEnterBack"}
          THEN /\ meetClasses' = meetClasses \cup {"active"}
               /\ meetTextClasses' = addAnimationClasses(meetTextClasses)
          ELSE /\ meetClasses' = meetClasses \ {"active"}
               /\ meetTextClasses' = removeAnimationClasses(meetTextClasses)
    /\ lastEvent' = "scroll"
    /\ UNCHANGED <<walletVars, layoutVars, ready, listeners, themeVars, modalVars, formVars,
                   doneTimers, raised, swipeTimelines, meetTimelines, logoClosures, gsapCalls,
                   resizes, sinceResize, joinWhileConfirming, submitted>>

\* ------------------------------------------------------------------ timers
TimerValues ==
    { doneTimers[i] : i \in 1 .. Len(doneTimers) }
    \cup { logoClosures[k].initTimer : k \in 1 .. Len(logoClosures) }
    \cup { logoClosures[k].resizeTimer : k \in 1 .. Len(logoClosures) }

AnyDue == 0 \in TimerValues

AnyPending == \E v \in TimerValues : v > 0

Elapse(v) == IF v < 0 THEN v ELSE Max(0, v - TickMs)

\* TickMs pass; a timer that is due fires before more time passes
Tick ==
    /\ ~AnyDue
    /\ AnyPending \/ sinceResize < ResizeDebounce
    /\ doneTimers' = [i \in 1 .. Len(doneTimers) |-> Elapse(doneTimers[i])]
    /\ logoClosures' = [k \in 1 .. Len(logoClosures) |->
                           [logoClosures[k] EXCEPT !.initTimer = Elapse(@),
                                                   !.resizeTimer = Elapse(@)]]
    /\ sinceResize' = Min(ResizeDebounce, sinceResize + TickMs)
    /\ UNCHANGED <<walletVars, layoutVars, ready, listeners, themeVars, modalVars, raised, formVars,
                   swipeTimelines, meetTimelines, meetClasses, meetTextClasses, gsapCalls,
                   resizes,
                   lastEvent, joinWhileConfirming, submitted>>

\* setTimeout(() => { updateAnimation(); }, 100) of closure k
LogoInitTimer ==
    \E k \in 1 .. Len(logoClosures) :
        /\ logoClosures[k].initTimer = 0
        /\ logoClosures' = [logoClosures EXCEPT
                               ![k] = [updateAnimation(@) EXCEPT !.initTimer = -1]]
        /\ gsapCalls' = gsapCalls + 1
        /\ lastEvent' = "logoInitTimer"
        /\ UNCHANGED <<walletVars, layoutVars, ready, listeners, themeVars, modalVars, raised,
                       formVars, doneTimers, swipeTimelines, meetTimelines,
                       meetClasses, meetTextClasses, resizes, sinceResize,
                       joinWhileConfirming, submitted>>

\* resizeTimer = setTimeout(() => { updateAnimation(); }, 250) of closure k
LogoResizeTimer ==
    \E k \in 1 .. Len(logoClosures) :
        /\ logoClosures[k].resizeTimer = 0
        /\ logoClosures' = [logoClosures EXCEPT
                               ![k] = [updateAnimation(@) EXCEPT !.resizeTimer = -1]]
        /\ gsapCalls' = gsapCalls + 1
        /\ lastEvent' = "logoResizeTimer"
        /\ UNCHANGED <<walletVars, layoutVars, ready, listeners, themeVars, modalVars, raised,
                       formVars, doneTimers, swipeTimelines, meetTimelines,
                       meetClasses, meetTextClasses, resizes, sinceResize,
                       joinWhileConfirming, submitted>>

\* setTimeout(() => { openPopup(donePopup); }, 300)
DoneTimer ==
    /\ doneTimers # << >>
    /\ Head(doneTimers) = 0
    /\ doneTimers' = Tail(doneTimers)
    /\ ApplyModal(openPopup(ModalState, "done"))
    /\ lastEvent' = "doneTimer"
    /\ UNCHANGED <<walletVars, layoutVars, ready, listeners, themeVars, formVars,
                   animVars, resizes, sinceResize, joinWhileConfirming, submitted>>

\* ------------------------------------------------------------ user events
\* An event reaches a handler whenever the handler is in the listener list of its
\* target; no handler looks at whether the popup its target sits in is shown.
modalFrame == <<walletVars, layoutVars, ready, listeners, themeVars, animVars,
                resizes, sinceResize>>

\* is the confirmation popup open, or about to be opened by a pending timer
Confirming == popupActive["done"] \/ doneTimers # << >>

handleJoinWaitlistClick ==
    /\ Registered(<<"joinWaitlistButton", "click">>)
    /\ ApplyModal(openPopup(ModalState, "waitlist"))
    /\ lastEvent' = "join"
    /\ joinWhileConfirming' = (joinWhileConfirming \/ Confirming)
    /\ UNCHANGED <<modalFrame, formVars, doneTimers, submitted>>

handleCloseButtonClick ==
    \E b \in CloseButtons :
        /\ Registered(<<b, "click">>)
        /\ ApplyModal(closePopup(ModalState, Closest(b)))
        /\ lastEvent' = b
        /\ UNCHANGED <<modalFrame, formVars, doneTimers, joinWhileConfirming, submitted>>

handleOverlayClick ==
    /\ Registered(<<"popupOverlay", "click">>)
    /\ ApplyModal(closeAllPopups(ModalState))
    /\ lastEvent' = "overlay"
    /\ UNCHANGED <<modalFrame, formVars, doneTimers, joinWhileConfirming, submitted>>

\* handlePopupClick: e.stopPropagation(), so no handler of an enclosing element runs
handlePopupClick(m) == m

\* a click inside a popup (not on its close button)
PopupClick ==
    \E p \in Popups :
        /\ Registered(<<PopupElement(p), "click">>)
        /\ ApplyModal(handlePopupClick(ModalState))
        /\ lastEvent' = "popupClick"
        /\ UNCHANGED <<modalFrame, formVars, doneTimers, joinWhileConfirming, submitted>>

Keys == {"Escape", "a"}

handleEscapeKey ==
    \E key \in Keys :
        /\ Registered(<<"document", "keydown">>)
        /\ ApplyModal(IF key = "Escape" THEN closeAllPopups(ModalState) ELSE ModalState)
        /\ lastEvent' = key
        /\ UNCHANGED <<modalFrame, formVars, doneTimers, joinWhileConfirming, submitted>>

\* the state handleFormSubmit reads and writes
FormState ==
    [modal |-> ModalState, value |-> emailValue, alerts |-> alerts, sent |-> sent,
     delivery |-> delivery, awaiting |-> awaiting, timers |-> doneTimers]

\* mutant: sendEmail() is called before the email is validated
handleFormSubmitSendsFirst(f) ==
    LET hasInput == "emailInput" \in present
        email == IF hasInput THEN Trim(f.value) ELSE << >>
        called == [f EXCEPT !.sent = Append(@, email), !.delivery = Append(@, "pending"),
                            !.awaiting = Append(@, "fetch")]
    IN  IF ~validateEmail(email)
        THEN [called EXCEPT !.alerts = @ + 1]
        ELSE [called EXCEPT !.modal = closePopup(@, "waitlist"),
                            !.timers = Append(@, DoneDelay),
                            !.value = IF hasInput THEN << >> ELSE @]

\* mutant: the waitlist popup is left open on a valid submission
handleFormSubmitKeepsOpen(f) ==
    LET hasInput == "emailInput" \in present
        email == IF hasInput THEN Trim(f.value) ELSE << >>
    IN  IF ~validateEmail(email)
        THEN [f EXCEPT !.alerts = @ + 1]
        ELSE [f EXCEPT !.sent = Append(@, email),
                       !.delivery = Append(@, "pending"),
                       !.awaiting = Append(@, "fetch"),
                       !.timers = Append(@, DoneDelay),
                       !.value = IF hasInput THEN << >> ELSE @]

\* mutant: a rejected submission clears the email input
handleFormSubmitClearsInput(f) ==
    LET hasInput == "emailInput" \in present
        email == IF hasInput THEN Trim(f.value) ELSE << >>
    IN  IF ~validateEmail(email)
        THEN [f EXCEPT !.alerts = @ + 1, !.value = << >>]
        ELSE [f EXCEPT !.sent = Append(@, email),
                       !.delivery = Append(@, "pending"),
                       !.awaiting = Append(@, "fetch"),
                       !.modal = closePopup(@, "waitlist"),
                       !.timers = Append(@, DoneDelay),
                       !.value = IF hasInput THEN << >> ELSE @]

\* handleFormSubmit: validate the trimmed value of the email input; alert and
\* return when it is rejected; otherwise call sendEmail() (which calls fetch),
\* close the waitlist popup, start the 300ms timer and clear the input
handleFormSubmit(f) ==
    LET hasInput == "emailInput" \in present
        email == IF hasInput THEN Trim(f.value) ELSE << >>
    IN  IF "waitlistForm" \notin present
        THEN [f EXCEPT !.modal.threw = TRUE]
        ELSE IF ~validateEmail(email)
        THEN [f EXCEPT !.alerts = @ + 1]
        ELSE [f EXCEPT !.sent = Append(@, email),
                       !.delivery = Append(@, "pending"),
                       !.awaiting = Append(@, "fetch"),
                       !.modal = closePopup(@, "waitlist"),
                       !.timers = Append(@, DoneDelay),
                       !.value = IF hasInput THEN << >> ELSE @]

\* a submit event runs the handler once for every time it is in the listener list
RECURSIVE DispatchSubmit(_, _)
DispatchSubmit(f, n) == IF n = 0 THEN f ELSE handleFormSubmit(DispatchSubmit(f, n - 1))

\* a submit event of the waitlist form
FormSubmit ==
    /\ Registered(<<"waitlistForm", "submit">>)
    /\ Len(submitted) < MaxSubmits
    /\ submitted' = Append(submitted, emailValue)
    /\ LET f == DispatchSubmit(FormState, listeners[<<"waitlistForm", "submit">>])
       IN  /\ ApplyModal(f.modal)
           /\ emailValue' = f.value
           /\ alerts' = f.alerts
           /\ sent' = f.sent
           /\ delivery' = f.delivery
           /\ awaiting' = f.awaiting
           /\ doneTimers' = f.timers
    /\ lastEvent' = "submit"
    /\ UNCHANGED <<modalFrame, errors, joinWhileConfirming>>

\* the email input gets a value: typed, pasted or filled in by the browser
InputEmail(values) ==
    \E value \in values \ {emailValue} :
        /\ "emailInput" \in present
        /\ emailValue' = value
        /\ UNCHANGED <<modalFrame, modalVars, raised, alerts, sent, delivery, awaiting, errors,
                       doneTimers, lastEvent, joinWhileConfirming, submitted>>

\* the user types one of the example addresses
InputExample == InputEmail(EmailInputs)

\* the user types an address that passes validation
InputAddress == InputEmail({ <<"a", "b", "@", "c", "d", "e">> })

\* how the promise of fetch settles: with a response whose ok is true or false, or
\* by rejecting
FetchOutcomes == {"ok", "not ok", "threw"}

\* sendEmail continues after `await fetch(...)`: with a response it runs on to
\* `await response.json()` and is suspended again; a rejection is caught
\* (console.error) and the call returns
FetchSettles ==
    \E i \in 1 .. Len(delivery), outcome \in FetchOutcomes :
        /\ awaiting[i] = "fetch"
        /\ IF outcome = "threw"
           THEN /\ delivery' = [delivery EXCEPT ![i] = "threw"]
                /\ awaiting' = [awaiting EXCEPT ![i] = "none"]
                /\ errors' = errors + 1
           ELSE /\ awaiting' = [awaiting EXCEPT ![i] = "json " \o outcome]
                /\ UNCHANGED <<delivery, errors>>
        /\ UNCHANGED <<modalFrame, modalVars, raised, emailValue, alerts, sent, doneTimers,
                       lastEvent, joinWhileConfirming, submitted>>

\* sendEmail continues after `await response.json()`: with the parsed body it
\* writes console.error if the response was not ok, and returns; a rejection is
\* caught (console.error) and the call returns
JsonSettles ==
    \E i \in 1 .. Len(delivery), parsed \in BOOLEAN :
        /\ awaiting[i] \in {"json ok", "json not ok"}
        /\ delivery' = [delivery EXCEPT
                           ![i] = IF ~parsed THEN "threw"
                                  ELSE IF awaiting[i] = "json ok" THEN "ok" ELSE "failed"]
        /\ awaiting' = [awaiting EXCEPT ![i] = "none"]
        /\ errors' = errors + (IF parsed /\ awaiting[i] = "json ok" THEN 0 ELSE 1)
        /\ UNCHANGED <<modalFrame, modalVars, raised, emailValue, alerts, sent, doneTimers,
                       lastEvent, joinWhileConfirming, submitted>>

\* the user clicks the theme toggle
ThemeToggleClick ==
    /\ Registered(<<"themeToggle", "click">>)
    /\ ApplyTheme(DispatchToggle(ThemeState, listeners[<<"themeToggle", "click">>]))
    /\ toggleTrail' = IF Len(toggleTrail) = 2
                      THEN << toggleTrail[2], ThemeState >>
                      ELSE Append(toggleTrail, ThemeState)
    /\ lastEvent' = "toggle"
    /\ UNCHANGED <<walletVars, layoutVars, ready, listeners, modalVars, raised, formVars,
                   doneTimers, animVars, resizes, sinceResize, joinWhileConfirming, submitted>>

\* ------------------------------------------------------------- layout
PanelSet == [inner : BOOLEAN, offsetHeight : Heights]

\* a panel without a .container has no inner element to measure
WellFormedPanel(p) == p.inner \/ p.offsetHeight = 0

PanelLists ==
    UNION { { s \in [1 .. n -> PanelSet] : \A i \in 1 .. n : WellFormedPanel(s[i]) }
            : n \in 0 .. MaxPanels }

\* a layout change: the window height or the height of one panel's content changes
Relayout ==
    /\ builds >= 1
    /\ relayouts < MaxRelayouts
    /\ \/ /\ \E h \in Heights \ {innerHeight} : innerHeight' = h
          /\ UNCHANGED panels
       \/ /\ \E i \in 1 .. Len(panels) : \E h \in Heights \ {panels[i].offsetHeight} :
                /\ panels[i].inner
                /\ panels' = [panels EXCEPT ![i].offsetHeight = h]
          /\ UNCHANGED innerHeight
    /\ relayouts' = relayouts + 1
    /\ UNCHANGED <<marginBottom, timelines, console, builds, pageVars>>

\* ------------------------------------------------------- initial states
TrackWidths == {0, 2}

\* the stored preference when the page loads
StoredThemes == {Absent, "dark", "light"}

\* the page as the last statement of the script finds it (lines 845-851), before
\* any call of initApp: nothing attached, nothing open, nothing registered
PageLoaded ==
    /\ logoWidth = 1
    /\ ready = FALSE
    /\ listeners = [l \in ListenerKeys |-> 0]
    /\ dataTheme = Absent
    /\ ariaPressed = Absent
    /\ statusBarContent = Absent
    /\ toggleTrail = << >>
    /\ popupActive = [p \in Popups |-> FALSE]
    /\ overlayActive = FALSE
    /\ bodyOverflow = ""
    /\ raised = FALSE
    /\ alerts = 0
    /\ sent = << >>
    /\ delivery = << >>
    /\ awaiting = << >>
    /\ errors = 0
    /\ doneTimers = << >>
    /\ swipeTimelines = 0
    /\ meetTimelines = 0
    /\ meetClasses = {}
    /\ meetTextClasses = [index \in 0 .. MaxMeetTexts - 1 |-> {}]
    /\ logoClosures = << >>
    /\ gsapCalls = 0
    /\ resizes = 0
    /\ sinceResize = ResizeDebounce
    /\ lastEvent = "load"
    /\ joinWhileConfirming = FALSE
    /\ submitted = << >>

\* the wallet panels before initWalletScroll has run, and on the page of main.js,
\* which never calls it (line 838 is a comment)
WalletUnbuilt ==
    /\ marginBottom = [i \in 1 .. Len(panels) |-> ""]
    /\ timelines = << >>
    /\ console = << >>
    /\ builds = 0
    /\ relayouts = 0

\* initWalletScroll called on any list of panels, any number of times
InitWallet ==
    /\ panels \in PanelLists
    /\ innerHeight \in Heights
    /\ WalletUnbuilt
    /\ innerWidth = LogoMinWidth + 1
    /\ trackWidth = 2
    /\ storedTheme = Absent
    /\ present = Elements \cup Modules
    /\ readyState = "interactive"
    /\ emailValue = << >>
    /\ PageLoaded

NextWallet == initWalletScroll \/ Relayout

SpecWallet == InitWallet /\ [][NextWallet]_vars

\* one panel to schedule and a last panel, measured at any of these heights
InitRatio ==
    /\ \E c \in ContentHeights :
          panels = << [inner |-> TRUE, offsetHeight |-> c],
                      [inner |-> TRUE, offsetHeight |-> 0] >>
    /\ innerHeight \in WindowHeights
    /\ WalletUnbuilt
    /\ innerWidth = LogoMinWidth + 1
    /\ trackWidth = 2
    /\ storedTheme = Absent
    /\ present = Elements \cup Modules
    /\ readyState = "interactive"
    /\ emailValue = << >>
    /\ PageLoaded

SpecRatio == InitRatio /\ [][NextWallet]_vars

\* the page with two wallet panels, the first one as tall as can be
PagePanels == << [inner |-> TRUE, offsetHeight |-> MaxHeight],
                 [inner |-> TRUE, offsetHeight |-> 0] >>

\* the page life cycle: page ready, resize events, timers, scrolling
Init ==
    /\ panels = PagePanels
    /\ innerHeight \in Heights
    /\ WalletUnbuilt
    /\ innerWidth \in Widths
    /\ trackWidth \in TrackWidths
    /\ storedTheme \in {Absent, "light"}
    /\ \E loaded \in SUBSET Modules : present = Elements \cup loaded
    /\ readyState \in ReadyStates
    /\ emailValue = << >>
    /\ PageLoaded

Next == PageReady \/ Resize \/ Tick \/ LogoInitTimer \/ LogoResizeTimer \/ MeetScroll

Spec == Init /\ [][Next]_vars

\* the modal popups and the waitlist form on a page without wallet panels
InitModal ==
    /\ panels = << >>
    /\ innerHeight = MaxHeight
    /\ WalletUnbuilt
    /\ innerWidth = LogoMinWidth + 1
    /\ trackWidth = 2
    /\ storedTheme = Absent
    /\ present = Elements \cup Modules
    /\ readyState = "interactive"
    /\ emailValue = << >>
    /\ PageLoaded

NextModal ==
    \/ PageReady
    \/ handleJoinWaitlistClick
    \/ PopupClick
    \/ handleCloseButtonClick
    \/ handleOverlayClick
    \/ handleEscapeKey
    \/ InputExample
    \/ FormSubmit
    \/ DoneTimer
    \/ LogoInitTimer
    \/ Tick

SpecModal == InitModal /\ [][NextModal]_vars

\* the waitlist form on a narrow window, the email input holding any string when
\* the page is loaded (a browser restores the values of form fields)
InitEmail ==
    /\ panels = << >>
    /\ innerHeight = MaxHeight
    /\ WalletUnbuilt
    /\ innerWidth = LogoMinWidth
    /\ trackWidth = 2
    /\ storedTheme = Absent
    /\ present = Elements \cup Modules
    /\ readyState = "interactive"
    /\ emailValue \in EmailStrings
    /\ PageLoaded

NextEmail == PageReady \/ handleJoinWaitlistClick \/ FormSubmit \/ DoneTimer \/ Tick

SpecEmail == InitEmail /\ [][NextEmail]_vars

\* the elements of the scroll animations
AnimationElements == {"swipe", "meet", "meetText", "logoTrack", "logo", "headerInner"}

\* the waitlist form with its delivery calls, on a page without animated sections
InitForm ==
    /\ panels = << >>
    /\ innerHeight = MaxHeight
    /\ WalletUnbuilt
    /\ innerWidth = LogoMinWidth + 1
    /\ trackWidth = 2
    /\ storedTheme = Absent
    /\ present = (Elements \ AnimationElements) \cup Modules
    /\ readyState = "interactive"
    /\ emailValue = << >>
    /\ PageLoaded

NextForm ==
    \/ PageReady
    \/ handleJoinWaitlistClick
    \/ handleCloseButtonClick
    \/ handleOverlayClick
    \/ handleEscapeKey
    \/ InputAddress
    \/ FormSubmit
    \/ FetchSettles
    \/ JsonSettles
    \/ DoneTimer
    \/ Tick

\* timers fire: time passes, and the event loop runs a timer callback that is due
SpecFormFair == InitForm /\ [][NextForm]_vars /\ WF_vars(Tick) /\ WF_vars(DoneTimer)

\* the same page, found loading or loaded by the script
InitResubmit ==
    /\ panels = << >>
    /\ innerHeight = MaxHeight
    /\ WalletUnbuilt
    /\ innerWidth = LogoMinWidth + 1
    /\ trackWidth = 2
    /\ storedTheme = Absent
    /\ present = (Elements \ AnimationElements) \cup Modules
    /\ readyState \in {"loading", "interactive"}
    /\ emailValue = << >>
    /\ PageLoaded

\* submissions and their delivery calls while the window is being resized; the
\* 300ms timers stay pending (their callback only opens the confirmation dialog)
NextResubmit ==
    \/ PageReady
    \/ Resize
    \/ handleJoinWaitlistClick
    \/ InputAddress
    \/ FormSubmit
    \/ FetchSettles
    \/ JsonSettles

SpecResubmit == InitResubmit /\ [][NextResubmit]_vars

\* the theme switcher, with or without the status-bar meta element, on a page
\* without animated sections, for every content of the preference store
InitTheme ==
    /\ panels = << >>
    /\ innerHeight = MaxHeight
    /\ WalletUnbuilt
    /\ innerWidth = LogoMinWidth + 1
    /\ trackWidth = 2
    /\ storedTheme \in StoredThemes
    /\ \E gone \in SUBSET {"statusBarMeta"} :
          present = ((Elements \ AnimationElements) \ gone) \cup Modules
    /\ readyState \in {"loading", "interactive"}
    /\ emailValue = << >>
    /\ PageLoaded

NextTheme ==
    \/ PageReady
    \/ Resize
    \/ Tick
    \/ ThemeToggleClick
    \/ handleJoinWaitlistClick
    \/ handleEscapeKey

SpecTheme == InitTheme /\ [][NextTheme]_vars

\* the elements inside an element: the form, its input and the close button sit
\* in the waitlist popup (#waitlist-popup .popup__form), a close button in the
\* done popup
Descendants(e) ==
    CASE e = "waitlistPopup" -> {"waitlistForm", "emailInput", "closeWaitlist"}
      [] e = "waitlistForm" -> {"emailInput"}
      [] e = "donePopup" -> {"closeDone"}
      [] OTHER -> {}

\* the page without the elements in gone and what they contain
Without(gone) == Elements \ (gone \cup UNION { Descendants(e) : e \in gone })

\* pages that lack up to MaxMissing elements (with their content), or all of them;
\* the email input, where there is one, holds a valid address
InitDom ==
    /\ panels = << >>
    /\ innerHeight = MaxHeight
    /\ WalletUnbuilt
    /\ innerWidth = LogoMinWidth + 1
    /\ trackWidth = 2
    /\ storedTheme = Absent
    /\ \E gone \in SUBSET Elements :
          /\ Cardinality(gone) <= MaxMissing \/ gone = Elements
          /\ present = Without(gone) \cup Modules
    /\ readyState = "interactive"
    /\ emailValue = (IF "emailInput" \in present
                     THEN <<"a", "b", "@", "c", "d", "e">>
                     ELSE << >>)
    /\ PageLoaded

NextDom ==
    \/ PageReady
    \/ ThemeToggleClick
    \/ handleJoinWaitlistClick
    \/ handleCloseButtonClick
    \/ handleOverlayClick
    \/ handleEscapeKey
    \/ FormSubmit
    \/ DoneTimer
    \/ LogoInitTimer
    \/ MeetScroll
    \/ Tick

SpecDom == InitDom /\ [][NextDom]_vars

\* the same page, found loading or loaded by the script, with or without the
\* HeaderButtonBackground module
InitReload ==
    /\ panels = << >>
    /\ innerHeight = MaxHeight
    /\ WalletUnbuilt
    /\ innerWidth = LogoMinWidth + 1
    /\ trackWidth = 2
    /\ storedTheme = Absent
    /\ \E loaded \in SUBSET Modules :
          present = (Elements \ AnimationElements) \cup loaded
    /\ readyState \in {"loading", "interactive"}
    /\ emailValue = << >>
    /\ PageLoaded

\* toggle clicks and form submissions while initApp is re-run by resize events;
\* the 300ms timers stay pending
NextListeners ==
    \/ PageReady
    \/ Resize
    \/ ThemeToggleClick
    \/ handleJoinWaitlistClick
    \/ InputAddress
    \/ FormSubmit

SpecListeners == InitReload /\ [][NextListeners]_vars

\* ------------------------------------------------------------------ claims
\* the timelines added and the console lines written by a step
NewTimelines == SubSeq(timelines', Len(timelines) + 1, Len(timelines'))

NewConsole == SubSeq(console', Len(console) + 1, Len(console'))

\* is timeline k the last one that set the margin of its panel
SetsMarginLast(k) ==
    /\ Truthy(timelines[k].fakeScrollRatio)
    /\ \A j \in k + 1 .. Len(timelines) :
          timelines[j].trigger = timelines[k].trigger => ~Truthy(timelines[j].fakeScrollRatio)

\* the kinds and durations of the tweens of a timeline, in order
Phases(t) == [j \in 1 .. Len(t.tweens) |-> <<t.tweens[j].kind, t.tweens[j].duration>>]

\* the phases of a panel whose content fits the window: 0.9, then 0.1
FitPhases ==
    << <<"scaleOpacity", Div(Num(9), Num(10))>>, <<"opacityToZero", Div(Num(1), Num(10))>> >>

\* C1: for every scheduled panel measured with contentHeight > viewportHeight >= 0,
\* the ratio r satisfies 0 < r < 1, the bottom margin is contentHeight * r, the
\* timeline starts with the fake-scroll phase and the scroll range ends
\* contentHeight pixels after its start.
C1_RatioStrictlyInside ==
    \A k \in 1 .. Len(timelines) :
        LET t == timelines[k]
            c == t.panelHeight
            w == t.windowHeight
            r == t.fakeScrollRatio
        IN  (c > w /\ w >= 0) =>
                /\ Less(Num(0), r)
                /\ Less(r, Num(1))
                /\ SetsMarginLast(k) => marginBottom[t.trigger] = Px(Mul(Num(c), r))
                /\ t.tweens[1].kind = "fakeScroll"
                /\ End(t).kind = "+="
                /\ relayouts = 0 => End(t).px = c

\* C2: a call of initWalletScroll gives every scheduled panel whose content fits the
\* window (contentHeight <= viewportHeight) the ratio 0, leaves its bottom margin
\* as it was, registers exactly the scale/opacity phase (0.9) followed by the
\* opacity-to-0 phase (0.1), and ends the range at "bottom top".
C2_FitsNoFakeScroll ==
    [][ builds' = builds + 1 =>
          \A k \in 1 .. Len(NewTimelines) :
              LET t == NewTimelines[k]
                  i == t.trigger
              IN  panels[i].offsetHeight <= innerHeight =>
                      /\ t.fakeScrollRatio = Num(0)
                      /\ marginBottom'[i] = marginBottom[i]
                      /\ Phases(t) = FitPhases
                      /\ End(t) = [kind |-> "bottom top", px |-> 0] ]_vars

\* C2 witness: a panel exactly as tall as the window was scheduled without margin
C2_Witness ==
    /\ builds >= 1
    /\ \E k \in 1 .. Len(timelines) :
          /\ timelines[k].panelHeight = timelines[k].windowHeight
          /\ timelines[k].panelHeight > 0
          /\ Len(timelines[k].tweens) = 2
          /\ marginBottom[timelines[k].trigger] = ""

\* C3: a call of initWalletScroll registers one timeline for exactly the panels that
\* are not the last one and have inner content, in document order; the last
\* panel and the skipped panels keep their margin, and each skipped panel gets
\* one warning.
C3_ScheduledPanels ==
    [][ builds' = builds + 1 =>
          LET n == Len(panels)
              want == { i \in 1 .. n - 1 : panels[i].inner }
              skipped == { i \in 1 .. n - 1 : ~panels[i].inner }
              warned == { j \in 1 .. Len(NewConsole) : NewConsole[j].level = "warn" }
          IN  /\ Len(NewTimelines) = Cardinality(want)
              /\ { NewTimelines[k].trigger : k \in 1 .. Len(NewTimelines) } = want
              /\ \A k \in 1 .. Len(NewTimelines) - 1 :
                    NewTimelines[k].trigger < NewTimelines[k + 1].trigger
              /\ n > 0 => marginBottom'[n] = marginBottom[n]
              /\ \A i \in skipped : marginBottom'[i] = marginBottom[i]
              /\ Cardinality(warned) = Cardinality(skipped)
              /\ { NewConsole[j].panel + 1 : j \in warned } = skipped ]_vars

\* C3 witness: of three panels the first was skipped, the second scheduled, the last left out
C3_Witness ==
    /\ builds >= 1
    /\ Len(panels) = 3
    /\ ~panels[1].inner /\ panels[2].inner /\ panels[3].inner
    /\ \E k \in 1 .. Len(timelines) : timelines[k].trigger = 2
    /\ \A k \in 1 .. Len(timelines) : timelines[k].trigger # 3
    /\ \E j \in 1 .. Len(console) : console[j] = [level |-> "warn", panel |-> 0]

\* C4: calling initWalletScroll again with the same measurements leaves the margins
\* and the registered timelines as the first call left them.
C4_RebuildIdempotent ==
    [][ (builds >= 1 /\ relayouts = 0 /\ builds' = builds + 1) =>
            (marginBottom' = marginBottom /\ timelines' = timelines) ]_vars

\* live ScrollTriggers of the logo animation
LiveLogo ==
    Cardinality({ k \in 1 .. Len(logoClosures) : logoClosures[k].scrollTriggerInstance # << >> })

\* C5: each scroll-driven animation (logo, swipe, meet) has at most one live
\* registration.
C5_SingleRegistration ==
    /\ swipeTimelines <= 1
    /\ meetTimelines <= 1
    /\ LiveLogo <= 1

\* C6: a resize event itself registers nothing, and after a resize a registration
\* is made only once 250ms have passed since the last resize event.
C6_ResizeDebounced ==
    [][ /\ lastEvent' = "resize" => gsapCalls' = gsapCalls
        /\ (resizes >= 1 /\ gsapCalls' > gsapCalls) => sinceResize >= ResizeDebounce ]_vars

\* C7: once the layout has changed (the window height or the height of a panel's
\* content), every scheduled panel's ratio, margin and timeline durations are
\* those computed from the current measurements. The script that calls
\* initWalletScroll registers no resize listener and starts no timer, so a layout
\* change is handled as soon as it has happened.
C7_ScheduleFollowsLayout ==
    relayouts >= 1 =>
        \A k \in 1 .. Len(timelines) :
            LET t == timelines[k]
                c == panels[t.trigger].offsetHeight
                r == FakeScrollRatio(c, innerHeight)
            IN  /\ t.fakeScrollRatio = r
                /\ t.tweens = Tweens(r, innerHeight)
                /\ Truthy(r) => marginBottom[t.trigger] = Px(MarginValue(c, r))

AllClosed ==
    /\ \A p \in Popups : ~popupActive[p]
    /\ ~overlayActive
    /\ bodyOverflow = ""

\* C8: after the join-waitlist handler or the confirmation timer has opened a
\* dialog, that dialog and the overlay are active and scroll is locked; after a
\* dialog's close button was clicked, that dialog and the overlay are inactive
\* and scroll is unlocked; after an overlay click or Escape, every dialog and the
\* overlay are inactive and scroll is unlocked.
C8_OpenCloseEffects ==
    /\ lastEvent = "join" =>
          popupActive["waitlist"] /\ overlayActive /\ bodyOverflow = "hidden"
    /\ lastEvent = "doneTimer" =>
          popupActive["done"] /\ overlayActive /\ bodyOverflow = "hidden"
    /\ \A b \in {"closeWaitlist", "closeDone"} :
          lastEvent = b => ~popupActive[Closest(b)] /\ ~overlayActive /\ bodyOverflow = ""
    /\ lastEvent \in {"overlay", "Escape"} => AllClosed

\* C8 witness: the confirmation dialog was opened by its timer and then closed with
\* its close button
C8_Witness ==
    /\ lastEvent = "closeDone"
    /\ Len(sent) >= 1
    /\ ~popupActive["done"]
    /\ ~overlayActive
    /\ bodyOverflow = ""

AnyOpen == \E p \in Popups : popupActive[p]

\* C9: scroll is locked iff a dialog is open, and the overlay is active iff a dialog
\* is open.
C9_LockIffOpen ==
    /\ bodyOverflow = "hidden" <=> AnyOpen
    /\ overlayActive <=> AnyOpen

BothOpen == popupActive["waitlist"] /\ popupActive["done"]

\* C10 as stated: the waitlist dialog and the confirmation dialog are never both open.
C10_AtMostOneDialog == ~BothOpen

\* C10 amended: both dialogs are open only after the join-waitlist handler has run
\* while the confirmation dialog was open or its 300ms timer was pending.
C10_BothOnlyAfterJoinWhileConfirming == BothOpen => joinWhileConfirming

\* C10 witness: both dialogs are open
C10_Witness == BothOpen /\ joinWhileConfirming

\* a string without its leading and trailing whitespace
Trimmed(str) ==
    LET solid == { i \in 1 .. Len(str) : str[i] \notin StrWhiteSpaceChar }
    IN  IF solid = {} THEN << >>
        ELSE SubSeq(str, CHOOSE i \in solid : \A j \in solid : i <= j,
                         CHOOSE i \in solid : \A j \in solid : i >= j)

\* the contract of the email field: non-empty, contains '@', longer than 3
MeetsContract(str) ==
    /\ Len(str) # 0
    /\ \E i \in 1 .. Len(str) : str[i] = "@"
    /\ Len(str) > 3

\* was the step a submit event
SubmitStep == Len(submitted') = Len(submitted) + 1

\* C11: a submit event accepts the value of the email input (sends it, no message)
\* iff the trimmed value is non-empty, contains '@' and is longer than 3;
\* otherwise it shows the message and sends nothing. "a@b" and "noatsign" are
\* rejected, "ab@cde" is accepted.
C11_AcceptsIffValid ==
    [][ SubmitStep =>
          IF MeetsContract(Trimmed(emailValue))
          THEN sent' = Append(sent, Trimmed(emailValue)) /\ alerts' = alerts
          ELSE sent' = sent /\ alerts' = alerts + 1 ]_vars

\* C11 witness: "ab@cde" was accepted, and a later submission of the emptied input
\* was rejected
C11_Witness ==
    /\ sent = << <<"a", "b", "@", "c", "d", "e">> >>
    /\ Len(submitted) = 2
    /\ submitted[2] = << >>
    /\ alerts = 1

\* C12: a submit event whose email fails validation shows the message and changes
\* nothing else: the dialogs, the overlay and the scroll lock are as before (an
\* open waitlist dialog stays open), no timer is started, no delivery call is
\* made and the email input keeps its value.
C12_RejectedChangesNothing ==
    [][ (SubmitStep /\ ~MeetsContract(Trimmed(emailValue))) =>
          /\ alerts' = alerts + 1
          /\ popupActive' = popupActive
          /\ popupActive["waitlist"] => popupActive'["waitlist"]
          /\ overlayActive' = overlayActive
          /\ bodyOverflow' = bodyOverflow
          /\ doneTimers' = doneTimers
          /\ sent' = sent
          /\ delivery' = delivery
          /\ emailValue' = emailValue
          /\ UNCHANGED <<themeVars, listeners, animVars>> ]_vars

\* C12 witness: "a@b" was rejected with the waitlist dialog open
C12_Witness ==
    /\ lastEvent = "submit"
    /\ submitted = << <<"a", "@", "b">> >>
    /\ alerts = 1
    /\ emailValue = <<"a", "@", "b">>
    /\ popupActive["waitlist"]
    /\ overlayActive
    /\ bodyOverflow = "hidden"
    /\ doneTimers = << >>
    /\ sent = << >>

\* C13: a submit event whose email passes validation closes the waitlist dialog
\* in the same step and starts the timer without opening the confirmation dialog;
\* the confirmation dialog is opened only by that timer when it is due; and a
\* pending timer always leads to the confirmation dialog being opened, whatever
\* the delivery call and the user do meanwhile.
C13_ConfirmationFollows ==
    /\ [][ (SubmitStep /\ MeetsContract(Trimmed(emailValue))) =>
              /\ ~popupActive'["waitlist"]
              /\ popupActive'["done"] = popupActive["done"]
              /\ doneTimers' = Append(doneTimers, DoneDelay) ]_vars
    /\ [][ (~popupActive["done"] /\ popupActive'["done"]) =>
              /\ doneTimers # << >>
              /\ Head(doneTimers) = 0
              /\ doneTimers' = Tail(doneTimers) ]_vars
    /\ (doneTimers # << >>) ~> (lastEvent = "doneTimer" /\ popupActive["done"])

\* C13 witness: the confirmation dialog was opened by the timer although the
\* delivery call threw and the user pressed Escape during the delay
C13_Witness ==
    /\ lastEvent = "doneTimer"
    /\ popupActive["done"]
    /\ ~popupActive["waitlist"]
    /\ delivery = << "threw" >>
    /\ errors = 1
    /\ doneTimers = << >>

\* does a submitted value pass the contract once trimmed
Passes(str) == MeetsContract(Trimmed(str))

\* the submitted values that pass, oldest first
Validated == SelectSeq(submitted, Passes)

\* C14: the delivery calls made are exactly the submissions that passed validation,
\* in order, each with the trimmed email as payload: none for a rejected
\* submission, none added when a call fails, none added by a resize.
C14_OneCallPerValidSubmission ==
    /\ Len(sent) = Len(Validated)
    /\ Len(delivery) = Len(sent)
    /\ \A i \in 1 .. Len(sent) : sent[i] = Trimmed(Validated[i])

\* C14 witness: after two resize events (initApp run three times), a rejected and an
\* accepted submission, one call was made, and it failed: fetch gave a response
\* that was not ok, its body was read and the call has returned
C14_Witness ==
    /\ ResizeWired
    /\ resizes >= 2
    /\ Len(submitted) = 2
    /\ Len(Validated) = 1
    /\ sent = << <<"a", "b", "@", "c", "d", "e">> >>
    /\ delivery = << "failed" >>
    /\ awaiting = << "none" >>
    /\ errors = 1
    /\ alerts = 1

\* C15: after a toggle click that sets the dark theme, the persisted preference
\* reads "dark"; and after two toggle clicks in a row the persisted preference,
\* the document's data-theme attribute and the toggle's aria-pressed state are
\* what they were before the first of the two.
C15_ToggleTwiceRestores ==
    /\ (lastEvent = "toggle" /\ dataTheme = "dark") => storedTheme = "dark"
    /\ Len(toggleTrail) = 2 =>
          /\ storedTheme = toggleTrail[1].stored
          /\ dataTheme = toggleTrail[1].data
          /\ ariaPressed = toggleTrail[1].pressed

\* C15 witness: dark, toggled to light, toggled back to dark
C15_Witness ==
    /\ lastEvent = "toggle"
    /\ Len(toggleTrail) = 2
    /\ toggleTrail[1].stored = "dark"
    /\ toggleTrail[2].stored = "light"
    /\ storedTheme = "dark"
    /\ dataTheme = "dark"
    /\ ariaPressed = "true"

\* C16: page-ready initialisation applies the persisted preference, or dark when
\* the key is absent; and once initialised the theme is dark or light, the
\* persisted preference equals the data-theme attribute, the toggle is pressed
\* iff the theme is dark, and the status-bar hint (when the element is there)
\* shows the colour of that theme.
C16_ThemeConsistent ==
    /\ [][ (~ready /\ ready') =>
              dataTheme' = (IF storedTheme = Absent THEN "dark" ELSE storedTheme) ]_vars
    /\ [] (ready =>
              /\ dataTheme \in {"dark", "light"}
              /\ storedTheme = dataTheme
              /\ "themeToggle" \in present => (ariaPressed = "true" <=> dataTheme = "dark")
              /\ "themeToggle" \in present => ariaPressed \in {"true", "false"}
              /\ "statusBarMeta" \in present =>
                    statusBarContent = (IF dataTheme = "dark" THEN "#121212" ELSE "#F7F7F7"))

\* C16 witness: the light theme after a toggle and a re-initialisation on resize
C16_Witness ==
    /\ ready
    /\ ResizeWired
    /\ resizes >= 1
    /\ lastEvent = "resize"
    /\ dataTheme = "light"
    /\ storedTheme = "light"
    /\ ariaPressed = "false"
    /\ statusBarContent = "#F7F7F7"

\* was the step a click on the theme toggle
ToggleStep == toggleTrail' # toggleTrail /\ toggleTrail' # << >>

\* C17: only a click on the theme toggle changes the persisted preference.
C17_OnlyToggleWritesStore ==
    [][ storedTheme' # storedTheme => ToggleStep ]_vars

\* the elements a click handler is attached to
ClickTargets ==
    {"themeToggle", "joinWaitlistButton", "popupOverlay", "waitlistPopup", "donePopup",
     "closeWaitlist", "closeDone", "closeStray"}

\* C18: whatever elements are missing, no exception leaves initApp or a handler;
\* initApp has initialised the theme, attached a handler to every element that
\* is there and registered the animation of every section that is there; and
\* the handlers that run do their work on the elements that are there.
C18_MissingElementsNotFatal ==
    /\ ~raised
    /\ ready =>
          /\ dataTheme \in {"dark", "light"}
          /\ storedTheme = dataTheme
          /\ \A e \in ClickTargets \cap present : listeners[<<e, "click">>] >= 1
          /\ "waitlistForm" \in present => listeners[<<"waitlistForm", "submit">>] >= 1
          /\ listeners[<<"document", "keydown">>] >= 1
          /\ "swipe" \in present => swipeTimelines = 1
          /\ {"meet", "meetText"} \subseteq present => meetTimelines = 1
          /\ {"logoTrack", "logo", "headerInner"} \subseteq present => Len(logoClosures) = 1
    /\ (lastEvent = "join" /\ "waitlistPopup" \in present) =>
          /\ popupActive["waitlist"]
          /\ bodyOverflow = "hidden"
          /\ "popupOverlay" \in present => overlayActive
    /\ (lastEvent = "doneTimer" /\ "donePopup" \in present) =>
          /\ popupActive["done"]
          /\ bodyOverflow = "hidden"
    /\ lastEvent = "toggle" => (ariaPressed = "true" <=> dataTheme = "dark")
    /\ lastEvent \in {"overlay", "Escape"} =>
          /\ \A q \in Popups : ~popupActive[q]
          /\ bodyOverflow = ""

\* C18 witness: on a page without the confirmation dialog and without the overlay,
\* a valid submission was sent and its timer ran
C18_Witness ==
    /\ "donePopup" \notin present
    /\ "popupOverlay" \notin present
    /\ lastEvent = "doneTimer"
    /\ Len(sent) = 1
    /\ ~popupActive["done"]
    /\ ~raised

\* the total duration of a timeline of three tweens, as JavaScript adds them
TotalDuration(t) ==
    Add(Add(t.tweens[1].duration, t.tweens[2].duration), t.tweens[3].duration)

\* the exact sum of the durations of a timeline of three tweens
ExactDuration(t) ==
    Sum(Sum(t.tweens[1].duration, t.tweens[2].duration), t.tweens[3].duration)

\* 2^-48, sixteen times the spacing of the binary64 numbers below 1: the bound
\* on the rounding error of the share, and on that of a pixel span or a margin
\* as a fraction of the content height
Tolerance == Fin(FALSE, << 1 >>, -48)

\* |x - y| < tol, in exact arithmetic
Within(x, y, tol) == Less([Sum(x, Neg(y)) EXCEPT !.neg = FALSE], tol)

\* C19 as stated: for a scheduled panel with contentHeight > viewportHeight > 0, the
\* share of the fake-scroll tween in the timeline's total duration is the ratio r
\* itself; so of the contentHeight pixels of the scroll range the fake scroll
\* takes contentHeight - viewportHeight, which is the bottom margin set on the
\* panel, and the scale and fade tweens together take viewportHeight.
C19_FakeScrollShareExact ==
    \A k \in 1 .. Len(timelines) :
        LET t == timelines[k]
            c == t.panelHeight
            w == t.windowHeight
            r == t.fakeScrollRatio
        IN  (c > w /\ w > 0) =>
                /\ Len(t.tweens) = 3
                /\ t.tweens[1].kind = "fakeScroll"
                /\ Div(t.tweens[1].duration, TotalDuration(t)) = r
                /\ relayouts = 0 => End(t) = [kind |-> "+=", px |-> c]
                /\ Mul(Num(c), Div(t.tweens[1].duration, TotalDuration(t))) = Num(c - w)
                /\ SetsMarginLast(k) => marginBottom[t.trigger] = Px(Num(c - w))
                /\ Mul(Num(c), Div(Add(t.tweens[2].duration, t.tweens[3].duration),
                                    TotalDuration(t))) = Num(w)

\* C19 (amended): for a scheduled panel with contentHeight > viewportHeight > 0, the
\* share d / T of the fake-scroll tween (duration d) in the sum T of the three
\* durations differs from the ratio r by less than 2^-48, |d / T - r| < 2^-48;
\* of the contentHeight pixels of the scroll range the fake scroll takes
\* contentHeight - viewportHeight and the scale and fade tweens take
\* viewportHeight, each to within contentHeight * 2^-48 pixels; and the bottom
\* margin set on the panel is contentHeight * r, which is within contentHeight *
\* 2^-48 pixels of contentHeight - viewportHeight.
C19_FakeScrollShare ==
    \A k \in 1 .. Len(timelines) :
        LET t == timelines[k]
            c == t.panelHeight
            w == t.windowHeight
            r == t.fakeScrollRatio
            d == t.tweens[1].duration
            total == ExactDuration(t)
            pixels == Product(Tolerance, Num(c))
        IN  (c > w /\ w > 0) =>
                /\ Len(t.tweens) = 3
                /\ t.tweens[1].kind = "fakeScroll"
                /\ Within(d, Product(r, total), Product(Tolerance, total))
                /\ relayouts = 0 => End(t) = [kind |-> "+=", px |-> c]
                /\ Within(Product(Num(c), d), Product(Num(c - w), total),
                          Product(pixels, total))
                /\ Within(Product(Num(c), Sum(total, Neg(d))), Product(Num(w), total),
                          Product(pixels, total))
                /\ Within(MarginValue(c, r), Num(c - w), pixels)
                /\ SetsMarginLast(k) => marginBottom[t.trigger] = Px(MarginValue(c, r))

\* C19 witness: content 2000 in a window of 800 was scheduled with ratio 0.6 and
\* margin 1200px
C19_Witness ==
    /\ builds = 1
    /\ Len(timelines) = 1
    /\ timelines[1].panelHeight = 2000
    /\ timelines[1].windowHeight = 800
    /\ timelines[1].fakeScrollRatio = Div(Num(3), Num(5))
    /\ marginBottom[1] = "1200px"
    /\ timelines[1].tweens[1].duration = Div(Num(3), Num(2))

\* C20: while the window is at most 480 pixels wide no logo scroll animation is
\* registered, and none is built or rebuilt.
C20_NoLogoWhenNarrow ==
    innerWidth <= LogoMinWidth =>
        /\ LiveLogo = 0
        /\ lastEvent \notin {"logoInitTimer", "logoResizeTimer"}

\* the other theme
Flipped(theme) == IF theme = "dark" THEN "light" ELSE "dark"

\* C21: however often initApp has run, no handler is in a listener list more than
\* once; a click on the theme toggle flips the theme exactly once (dark to light
\* or light to dark); and a submit event runs the submission handler exactly once
\* (one alert or one delivery call, one more timer at most).
C21_HandlersRunOnce ==
    /\ [] (\A l \in ListenerKeys : listeners[l] <= 1)
    /\ [][ ToggleStep =>
              /\ dataTheme' = Flipped(dataTheme)
              /\ storedTheme' = dataTheme' ]_vars
    /\ [][ SubmitStep =>
              /\ alerts' + Len(sent') = alerts + Len(sent) + 1
              /\ Len(doneTimers') = Len(doneTimers) + (Len(sent') - Len(sent)) ]_vars

\* C21 witness: after initApp has run three times (page ready, two resize events)
\* one click has turned dark into light and one submission has made one call
C21_Witness ==
    /\ ready
    /\ ResizeWired
    /\ resizes >= 2
    /\ lastEvent = "submit"
    /\ Len(toggleTrail) = 1
    /\ toggleTrail[1].data = "dark"
    /\ dataTheme = "light"
    /\ Len(submitted) = 1
    /\ Len(sent) = 1
    /\ alerts = 0

\* C22: a key press other than Escape, a click inside an open dialog and a click on
\* a close button that is in no dialog leave every dialog's open state, the
\* overlay's active state and the scroll lock as they were.
C22_NoOpEvents ==
    [][ lastEvent' \in {"a", "popupClick", "closeStray"} =>
            /\ popupActive' = popupActive
            /\ overlayActive' = overlayActive
            /\ bodyOverflow' = bodyOverflow ]_vars

\* C22 witness: the close button outside the dialogs was clicked while the waitlist
\* dialog was open, and the dialog is still open
C22_Witness ==
    /\ lastEvent = "closeStray"
    /\ popupActive["waitlist"]
    /\ overlayActive
    /\ bodyOverflow = "hidden"

====
